---- MODULE Spec2Model ----
(***************************************************************************)
(* Model of the blacksmith worker pool (blacksmith.go): the task queue,    *)
(* the idle-worker registry (workerPool), the dispatch loop with its       *)
(* per-task matching goroutines and its teardown goroutine, the worker     *)
(* loop, handler resolution, and the stop handshake.                       *)
(***************************************************************************)
EXTENDS Integers, Sequences, FiniteSets, TLC

\* ---- bounds ----
MaxWorkers == 2
MaxTasks == 2

\* ---- value sets ----
Nil == "nil"
Kinds == {"A", "B"}
Handlers == {"H1", "H2"}
WorkerIds == 1..MaxWorkers
TaskIds == 1..MaxTasks

VARIABLES
    phase,        \* "new" after New(), "running" after Run()
    maxWorkers,   \* Blacksmith.maxWorkers
    handlerFn,    \* Blacksmith.handlerFn (Nil or a handler)
    handlerMap,   \* Blacksmith.handlerMap: kind -> handler or Nil
    lastSet,      \* history: the handler of the latest SetHandler call per kind
    workerPool,   \* Blacksmith.workerPool: buffered channel of worker inboxes
    bStop,        \* Blacksmith.stopChannel
    wStop,        \* Worker.stopChannel, per worker
    nextId,       \* number of QueueTask calls started so far
    taskKind,     \* Task.TaskName of each task created
    callerPc,     \* the client goroutine: "idle", "sending" (inside QueueTask),
                  \* "stopping" (inside Stop)
    dpc,          \* dispatch loop: "off", "select", "spawnMatch", "spawnTeardown"
    djob,         \* the job the dispatch loop has just received
    munit,        \* matching goroutine of each task: "none", "claim", "send", "done"
    mchan,        \* taskChannel (by worker id) the matching goroutine has claimed
    tpc,          \* teardown goroutine: "none", "loop", "done"
    tidx,         \* index of the next worker the teardown goroutine stops
    wpc,          \* worker loop: "off", "register", "select", "process", "handler",
                  \* "quitting", "stopped"
    wtask,        \* task a worker holds
    execCount,    \* history: per task, the number of times it was passed to the execution callback
    invoked,      \* history: handler invocations in order
    completed,    \* history: tasks whose execution callback returned
    acceptedPreStop, \* history: tasks whose QueueTask returned before Stop() was called
    contended     \* history: two matching goroutines have waited for an inbox at the same time

configVars == <<phase, maxWorkers, handlerFn, handlerMap, lastSet>>
stopVars == <<bStop, wStop>>
callerVars == <<nextId, taskKind, callerPc>>
dispVars == <<dpc, djob>>
matchVars == <<munit, mchan>>
tearVars == <<tpc, tidx>>
workVars == <<wpc, wtask>>
histVars == <<execCount, invoked, completed, acceptedPreStop, contended>>

vars == <<configVars, stopVars, callerVars, dispVars, matchVars, tearVars, workVars,
          workerPool, histVars>>

Workers == 1..maxWorkers

\* ---- stop handshake (utils.StopChannel) ----
\* RequestStop signals the request without blocking the requester; the owner
\* observes it by receiving from OnRequest and acknowledges with Stop().
RequestStop(s) == IF s = "idle" THEN "requested" ELSE s
\* Mutant: RequestStop returns only once the owner has acknowledged.
RequestReturns_Wait(s) == s = "complete"
\* RequestStop returns to its caller whatever the state of the handshake.
RequestReturns(s) == TRUE
OnRequest(s) == s = "requested"
Observed(s) == "observed"
StopAck(s) == "complete"

\* ---- New ----
Init ==
    /\ phase = "new"
    /\ maxWorkers \in 1..MaxWorkers
    /\ handlerFn = Nil
    /\ handlerMap = [k \in Kinds |-> Nil]
    /\ lastSet = [k \in Kinds |-> Nil]
    /\ workerPool = <<>>
    /\ bStop = "idle"
    /\ wStop = [w \in WorkerIds |-> "idle"]
    /\ nextId = 0
    /\ taskKind = [t \in TaskIds |-> Nil]
    /\ callerPc = "idle"
    /\ dpc = "off"
    /\ djob = 0
    /\ munit = [t \in TaskIds |-> "none"]
    /\ mchan = [t \in TaskIds |-> 0]
    /\ tpc = "none"
    /\ tidx = 0
    /\ wpc = [w \in WorkerIds |-> "off"]
    /\ wtask = [w \in WorkerIds |-> 0]
    /\ execCount = [t \in TaskIds |-> 0]
    /\ invoked = <<>>
    /\ completed = {}
    /\ acceptedPreStop = {}
    /\ contended = FALSE

\* ---- configuration ----
SetHandlerFn(h) ==
    /\ phase = "new"
    /\ handlerFn' = h
    /\ UNCHANGED <<phase, maxWorkers, handlerMap, lastSet>>
    /\ UNCHANGED <<stopVars, callerVars, dispVars, matchVars, tearVars, workVars,
                   workerPool, histVars>>

\* Mutant: a handler already registered for the kind is kept.
SetHandler_KeepFirst(k, h) ==
    /\ phase = "new"
    /\ handlerMap' = [handlerMap EXCEPT ![k] = IF @ = Nil THEN h ELSE @]
    /\ lastSet' = [lastSet EXCEPT ![k] = h]
    /\ UNCHANGED <<phase, maxWorkers, handlerFn>>
    /\ UNCHANGED <<stopVars, callerVars, dispVars, matchVars, tearVars, workVars,
                   workerPool, histVars>>

SetHandler(k, h) ==
    /\ phase = "new"
    /\ handlerMap' = [handlerMap EXCEPT ![k] = h]
    /\ lastSet' = [lastSet EXCEPT ![k] = h]
    /\ UNCHANGED <<phase, maxWorkers, handlerFn>>
    /\ UNCHANGED <<stopVars, callerVars, dispVars, matchVars, tearVars, workVars,
                   workerPool, histVars>>

\* Run starts every worker goroutine and then the dispatch loop.
Run ==
    /\ phase = "new"
    /\ phase' = "running"
    /\ wpc' = [w \in WorkerIds |-> IF w \in Workers THEN "register" ELSE "off"]
    /\ dpc' = "select"
    /\ UNCHANGED <<maxWorkers, handlerFn, handlerMap, lastSet, djob, wtask>>
    /\ UNCHANGED <<stopVars, callerVars, matchVars, tearVars, workerPool, histVars>>

\* ---- the client goroutine ----
\* Stop(): b.stopChannel.RequestStop() is issued.
Stop ==
    /\ phase = "running"
    /\ callerPc = "idle"
    /\ bStop = "idle"
    /\ bStop' = RequestStop(bStop)
    /\ callerPc' = "stopping"
    /\ UNCHANGED <<nextId, taskKind>>
    /\ UNCHANGED <<wStop, configVars, dispVars, matchVars, tearVars, workVars,
                   workerPool, histVars>>

\* Mutant: Stop() returns only when every worker has stopped.
StopReturn_Join ==
    /\ callerPc = "stopping"
    /\ RequestReturns(bStop)
    /\ \A w \in Workers : wpc[w] = "stopped"
    /\ callerPc' = "idle"
    /\ UNCHANGED <<nextId, taskKind>>
    /\ UNCHANGED <<configVars, stopVars, dispVars, matchVars, tearVars, workVars,
                   workerPool, histVars>>

\* Stop(): RequestStop has returned; log "Blacksmith stopped." and return b.
StopReturn ==
    /\ callerPc = "stopping"
    /\ RequestReturns(bStop)
    /\ callerPc' = "idle"
    /\ UNCHANGED <<nextId, taskKind>>
    /\ UNCHANGED <<configVars, stopVars, dispVars, matchVars, tearVars, workVars,
                   workerPool, histVars>>

\* QueueTask(kind, payload): the caller builds the task and starts the send on
\* the unbuffered taskQueue.
QueueTaskCall(k) ==
    /\ phase = "running"
    /\ callerPc = "idle"
    /\ nextId < MaxTasks
    /\ nextId' = nextId + 1
    /\ taskKind' = [taskKind EXCEPT ![nextId + 1] = k]
    /\ callerPc' = "sending"
    /\ UNCHANGED <<configVars, stopVars, dispVars, matchVars, tearVars, workVars, workerPool,
                   histVars>>

\* Mutant: the dispatch loop receives a job only once an idle inbox is there.
DispatchReceive_Inline ==
    /\ dpc = "select"
    /\ callerPc = "sending"
    /\ workerPool # <<>>
    /\ djob' = nextId
    /\ dpc' = "spawnMatch"
    /\ callerPc' = "idle"
    /\ acceptedPreStop' = IF bStop = "idle" THEN acceptedPreStop \cup {nextId}
                          ELSE acceptedPreStop
    /\ UNCHANGED <<nextId, taskKind, execCount, invoked, completed, contended>>
    /\ UNCHANGED <<configVars, stopVars, matchVars, tearVars, workVars, workerPool>>

\* ---- dispatch loop ----
\* case job := <-b.taskQueue: the rendezvous with the sender; QueueTask returns.
DispatchReceive ==
    /\ dpc = "select"
    /\ callerPc = "sending"
    /\ djob' = nextId
    /\ dpc' = "spawnMatch"
    /\ callerPc' = "idle"
    /\ acceptedPreStop' = IF bStop = "idle" THEN acceptedPreStop \cup {nextId}
                          ELSE acceptedPreStop
    /\ UNCHANGED <<nextId, taskKind, execCount, invoked, completed, contended>>
    /\ UNCHANGED <<configVars, stopVars, matchVars, tearVars, workVars, workerPool>>

\* go func(job Task) {...}(job): start the matching goroutine, back to select.
DispatchSpawnMatch ==
    /\ dpc = "spawnMatch"
    /\ munit' = [munit EXCEPT ![djob] = "claim"]
    /\ dpc' = "select"
    /\ djob' = 0
    /\ contended' = (contended \/ \E t \in TaskIds : munit[t] = "claim")
    /\ UNCHANGED <<execCount, invoked, completed, acceptedPreStop>>
    /\ UNCHANGED <<mchan, configVars, stopVars, callerVars, tearVars, workVars, workerPool>>

\* Mutant: the dispatch loop returns when it observes the stop request, after
\* starting the teardown goroutine.
DispatchStop_Return ==
    /\ dpc = "select"
    /\ OnRequest(bStop)
    /\ bStop' = Observed(bStop)
    /\ dpc' = "off"
    /\ tpc' = "loop"
    /\ tidx' = 1
    /\ UNCHANGED <<djob, wStop, configVars, callerVars, matchVars, workVars,
                   workerPool, histVars>>

\* case <-b.stopChannel.OnRequest
DispatchStop ==
    /\ dpc = "select"
    /\ OnRequest(bStop)
    /\ bStop' = Observed(bStop)
    /\ dpc' = "spawnTeardown"
    /\ UNCHANGED <<djob, wStop, configVars, callerVars, matchVars, tearVars, workVars,
                   workerPool, histVars>>

\* go func() {...}(): start the teardown goroutine, back to select.
DispatchSpawnTeardown ==
    /\ dpc = "spawnTeardown"
    /\ tpc' = "loop"
    /\ tidx' = 1
    /\ dpc' = "select"
    /\ UNCHANGED <<djob, configVars, stopVars, callerVars, matchVars, workVars,
                   workerPool, histVars>>

\* Mutant: the matching goroutine reads the head of the registry without
\* removing it.
MatchClaim_Peek(t) ==
    /\ munit[t] = "claim"
    /\ workerPool # <<>>
    /\ mchan' = [mchan EXCEPT ![t] = Head(workerPool)]
    /\ munit' = [munit EXCEPT ![t] = "send"]
    /\ UNCHANGED <<workerPool, configVars, stopVars, callerVars, dispVars, tearVars, workVars,
                   histVars>>

\* ---- matching goroutine ----
\* taskChannel := <-b.workerPool
MatchClaim(t) ==
    /\ munit[t] = "claim"
    /\ workerPool # <<>>
    /\ mchan' = [mchan EXCEPT ![t] = Head(workerPool)]
    /\ workerPool' = Tail(workerPool)
    /\ munit' = [munit EXCEPT ![t] = "send"]
    /\ UNCHANGED <<configVars, stopVars, callerVars, dispVars, tearVars, workVars, histVars>>

\* Mutant: the teardown loop leaves after the first worker.
TeardownStopWorker_Break ==
    /\ tpc = "loop"
    /\ tidx <= maxWorkers
    /\ wStop' = [wStop EXCEPT ![tidx] = RequestStop(wStop[tidx])]
    /\ tidx' = maxWorkers + 1
    /\ UNCHANGED <<bStop, tpc, configVars, callerVars, dispVars, matchVars, workVars,
                   workerPool, histVars>>

\* ---- teardown goroutine ----
\* for _, worker := range b.workers { worker.stop() }
TeardownStopWorker ==
    /\ tpc = "loop"
    /\ tidx <= maxWorkers
    /\ wStop' = [wStop EXCEPT ![tidx] = RequestStop(wStop[tidx])]
    /\ tidx' = IF RequestReturns(wStop'[tidx]) THEN tidx + 1 ELSE tidx
    /\ UNCHANGED <<bStop, tpc, configVars, callerVars, dispVars, matchVars, workVars,
                   workerPool, histVars>>

\* b.stopChannel.Stop()
TeardownAck ==
    /\ tpc = "loop"
    /\ tidx > maxWorkers
    /\ bStop' = StopAck(bStop)
    /\ tpc' = "done"
    /\ UNCHANGED <<wStop, tidx, configVars, callerVars, dispVars, matchVars, workVars,
                   workerPool, histVars>>

\* Mutant: the map is consulted first and the catch-all is a fallback.
ResolveHandler_MapFirst(k) ==
    IF handlerMap[k] # Nil THEN handlerMap[k] ELSE handlerFn

\* ---- handler resolution ----
\* executeTask: the catch-all first, then the map; Nil when neither is there.
ResolveHandler(k) ==
    IF handlerFn # Nil THEN handlerFn ELSE handlerMap[k]

\* ---- worker loop ----
\* Mutant: the worker pushes its inbox twice per iteration.
WorkerRegister_Twice(w) ==
    /\ wpc[w] = "register"
    /\ Len(workerPool) < maxWorkers
    /\ workerPool' = Append(Append(workerPool, w), w)
    /\ wpc' = [wpc EXCEPT ![w] = "select"]
    /\ UNCHANGED <<wtask, configVars, stopVars, callerVars, dispVars, matchVars, tearVars,
                   histVars>>

\* worker.workerPool <- worker.taskChannel (buffered, capacity maxWorkers)
WorkerRegister(w) ==
    /\ wpc[w] = "register"
    /\ Len(workerPool) < maxWorkers
    /\ workerPool' = Append(workerPool, w)
    /\ wpc' = [wpc EXCEPT ![w] = "select"]
    /\ UNCHANGED <<wtask, configVars, stopVars, callerVars, dispVars, matchVars, tearVars,
                   histVars>>

\* Mutant: the matching goroutine does not end after the handoff and sends
\* the job again.
WorkerReceive_Resend(w, t) ==
    /\ wpc[w] = "select"
    /\ munit[t] = "send"
    /\ mchan[t] = w
    /\ wpc' = [wpc EXCEPT ![w] = "process"]
    /\ wtask' = [wtask EXCEPT ![w] = t]
    /\ UNCHANGED <<munit, mchan, configVars, stopVars, callerVars, dispVars, tearVars,
                   workerPool, histVars>>

\* case task := <-worker.taskChannel: the rendezvous with the matching
\* goroutine's taskChannel <- job, which then ends.
WorkerReceive(w, t) ==
    /\ wpc[w] = "select"
    /\ munit[t] = "send"
    /\ mchan[t] = w
    /\ munit' = [munit EXCEPT ![t] = "done"]
    /\ wpc' = [wpc EXCEPT ![w] = "process"]
    /\ wtask' = [wtask EXCEPT ![w] = t]
    /\ UNCHANGED <<mchan, configVars, stopVars, callerVars, dispVars, tearVars,
                   workerPool, histVars>>

\* Mutant: a missing handler is called all the same and the worker goroutine
\* dies on the nil call.
ExecuteTask_NilCall(w) ==
    /\ wpc[w] = "process"
    /\ LET t == wtask[w]
           h == ResolveHandler(taskKind[t])
       IN /\ execCount' = [execCount EXCEPT ![t] = @ + 1]
          /\ IF h # Nil
             THEN /\ invoked' = Append(invoked, [task |-> t, handler |-> h])
                  /\ wpc' = [wpc EXCEPT ![w] = "handler"]
                  /\ UNCHANGED <<wtask, completed>>
             ELSE /\ wpc' = [wpc EXCEPT ![w] = "stopped"]
                  /\ wtask' = [wtask EXCEPT ![w] = 0]
                  /\ completed' = completed \cup {t}
                  /\ UNCHANGED invoked
    /\ UNCHANGED <<acceptedPreStop, contended>>
    /\ UNCHANGED <<configVars, stopVars, callerVars, dispVars, matchVars, tearVars, workerPool>>

\* Mutant: the handler is started in a goroutine of its own and the worker
\* loops back at once.
ExecuteTask_Async(w) ==
    /\ wpc[w] = "process"
    /\ LET t == wtask[w]
           h == ResolveHandler(taskKind[t])
       IN /\ execCount' = [execCount EXCEPT ![t] = @ + 1]
          /\ wpc' = [wpc EXCEPT ![w] = "register"]
          /\ wtask' = [wtask EXCEPT ![w] = 0]
          /\ IF h # Nil
             THEN /\ invoked' = Append(invoked, [task |-> t, handler |-> h])
                  /\ UNCHANGED completed
             ELSE /\ completed' = completed \cup {t}
                  /\ UNCHANGED invoked
    /\ UNCHANGED <<acceptedPreStop, contended>>
    /\ UNCHANGED <<configVars, stopVars, callerVars, dispVars, matchVars, tearVars, workerPool>>

\* taskHandler(task): b.executeTask resolves the handler and calls it, or logs
\* and returns when there is none.
ExecuteTask(w) ==
    /\ wpc[w] = "process"
    /\ LET t == wtask[w]
           h == ResolveHandler(taskKind[t])
       IN /\ execCount' = [execCount EXCEPT ![t] = @ + 1]
          /\ IF h # Nil
             THEN /\ invoked' = Append(invoked, [task |-> t, handler |-> h])
                  /\ wpc' = [wpc EXCEPT ![w] = "handler"]
                  /\ UNCHANGED <<wtask, completed>>
             ELSE /\ wpc' = [wpc EXCEPT ![w] = "register"]
                  /\ wtask' = [wtask EXCEPT ![w] = 0]
                  /\ completed' = completed \cup {t}
                  /\ UNCHANGED invoked
    /\ UNCHANGED <<acceptedPreStop, contended>>
    /\ UNCHANGED <<configVars, stopVars, callerVars, dispVars, matchVars, tearVars, workerPool>>

\* Mutant: after the handler the worker waits on its inbox again without
\* registering it.
HandlerReturn_NoRegister(w) ==
    /\ wpc[w] = "handler"
    /\ wpc' = [wpc EXCEPT ![w] = "select"]
    /\ completed' = completed \cup {wtask[w]}
    /\ wtask' = [wtask EXCEPT ![w] = 0]
    /\ UNCHANGED <<execCount, invoked, acceptedPreStop, contended>>
    /\ UNCHANGED <<configVars, stopVars, callerVars, dispVars, matchVars, tearVars, workerPool>>

\* The handler returns; the worker loops back to registering.
HandlerReturn(w) ==
    /\ wpc[w] = "handler"
    /\ wpc' = [wpc EXCEPT ![w] = "register"]
    /\ completed' = completed \cup {wtask[w]}
    /\ wtask' = [wtask EXCEPT ![w] = 0]
    /\ UNCHANGED <<execCount, invoked, acceptedPreStop, contended>>
    /\ UNCHANGED <<configVars, stopVars, callerVars, dispVars, matchVars, tearVars, workerPool>>

\* The handler panics. Neither executeTask nor the worker goroutine recovers,
\* so the panic leaves the goroutine and the Go runtime ends the process:
\* every goroutine of the pool is gone.
HandlerPanic(w) ==
    /\ wpc[w] = "handler"
    /\ wpc' = [v \in WorkerIds |-> IF v = w THEN "panicked"
                                   ELSE IF v \in Workers THEN "dead" ELSE wpc[v]]
    /\ dpc' = "dead"
    /\ tpc' = IF tpc = "loop" THEN "dead" ELSE tpc
    /\ munit' = [t \in TaskIds |-> IF munit[t] \in {"claim", "send"} THEN "dead" ELSE munit[t]]
    /\ callerPc' = "dead"
    /\ UNCHANGED <<nextId, taskKind, djob, mchan, tidx, wtask>>
    /\ UNCHANGED <<configVars, stopVars, workerPool, histVars>>

\* Mutant: the stop request is also honoured while the handler is running.
WorkerObserveStop_Abort(w) ==
    /\ wpc[w] \in {"select", "handler"}
    /\ OnRequest(wStop[w])
    /\ wStop' = [wStop EXCEPT ![w] = Observed(wStop[w])]
    /\ wpc' = [wpc EXCEPT ![w] = "quitting"]
    /\ UNCHANGED <<bStop, wtask, configVars, callerVars, dispVars, matchVars, tearVars,
                   workerPool, histVars>>

\* case <-worker.stopChannel.OnRequest
WorkerObserveStop(w) ==
    /\ wpc[w] = "select"
    /\ OnRequest(wStop[w])
    /\ wStop' = [wStop EXCEPT ![w] = Observed(wStop[w])]
    /\ wpc' = [wpc EXCEPT ![w] = "quitting"]
    /\ UNCHANGED <<bStop, wtask, configVars, callerVars, dispVars, matchVars, tearVars,
                   workerPool, histVars>>

\* Mutant: the worker acknowledges and goes on with its loop.
WorkerAck_Continue(w) ==
    /\ wpc[w] = "quitting"
    /\ wStop' = [wStop EXCEPT ![w] = StopAck(wStop[w])]
    /\ wpc' = [wpc EXCEPT ![w] = "register"]
    /\ UNCHANGED <<bStop, wtask, configVars, callerVars, dispVars, matchVars, tearVars,
                   workerPool, histVars>>

\* worker.stopChannel.Stop(); return
WorkerAck(w) ==
    /\ wpc[w] = "quitting"
    /\ wStop' = [wStop EXCEPT ![w] = StopAck(wStop[w])]
    /\ wpc' = [wpc EXCEPT ![w] = "stopped"]
    /\ UNCHANGED <<bStop, wtask, configVars, callerVars, dispVars, matchVars, tearVars,
                   workerPool, histVars>>

WorkerStep(w) ==
    \/ WorkerRegister(w)
    \/ \E t \in TaskIds : WorkerReceive(w, t)
    \/ ExecuteTask(w)
    \/ WorkerObserveStop(w)
    \/ WorkerAck(w)

DispatchStep ==
    \/ DispatchReceive
    \/ DispatchSpawnMatch
    \/ DispatchStop
    \/ DispatchSpawnTeardown

TeardownStep ==
    \/ TeardownStopWorker
    \/ TeardownAck

\* A pool configured with a handler for kind "A" only, and running.
InitPool ==
    \E n \in 1..MaxWorkers :
        /\ phase = "running"
        /\ maxWorkers = n
        /\ handlerFn = Nil
        /\ handlerMap = [k \in Kinds |-> IF k = "A" THEN "H1" ELSE Nil]
        /\ lastSet = handlerMap
        /\ workerPool = <<>>
        /\ bStop = "idle"
        /\ wStop = [w \in WorkerIds |-> "idle"]
        /\ nextId = 0
        /\ taskKind = [t \in TaskIds |-> Nil]
        /\ callerPc = "idle"
        /\ dpc = "select"
        /\ djob = 0
        /\ munit = [t \in TaskIds |-> "none"]
        /\ mchan = [t \in TaskIds |-> 0]
        /\ tpc = "none"
        /\ tidx = 0
        /\ wpc = [w \in WorkerIds |-> IF w <= n THEN "register" ELSE "off"]
        /\ wtask = [w \in WorkerIds |-> 0]
        /\ execCount = [t \in TaskIds |-> 0]
        /\ invoked = <<>>
        /\ completed = {}
        /\ acceptedPreStop = {}
        /\ contended = FALSE

ConfigSteps ==
    \/ \E h \in Handlers : SetHandlerFn(h)
    \/ \E k \in Kinds, h \in Handlers : SetHandler(k, h)
    \/ Run

RunSteps ==
    \/ \E k \in Kinds : QueueTaskCall(k)
    \/ DispatchReceive
    \/ DispatchSpawnMatch
    \/ \E t \in TaskIds : MatchClaim(t)
    \/ \E w \in WorkerIds : WorkerRegister(w)
    \/ \E w \in WorkerIds, t \in TaskIds : WorkerReceive(w, t)
    \/ \E w \in WorkerIds : ExecuteTask(w)
    \/ \E w \in WorkerIds : HandlerReturn(w)

StopSteps ==
    \/ Stop
    \/ StopReturn
    \/ DispatchStop
    \/ DispatchSpawnTeardown
    \/ TeardownStopWorker
    \/ TeardownAck
    \/ \E w \in WorkerIds : WorkerObserveStop(w)
    \/ \E w \in WorkerIds : WorkerAck(w)

PanicSteps == \E w \in WorkerIds : HandlerPanic(w)

Next == ConfigSteps \/ RunSteps \/ StopSteps \/ PanicSteps

NextPanic == RunSteps \/ PanicSteps

NextPool == RunSteps \/ StopSteps

NextResolve == ConfigSteps \/ RunSteps

\* Every goroutine that can take a step eventually takes one.
Fairness ==
    /\ WF_vars(StopReturn)
    /\ WF_vars(DispatchStep)
    /\ WF_vars(TeardownStep)
    /\ \A t \in TaskIds : WF_vars(MatchClaim(t))
    /\ \A w \in WorkerIds : WF_vars(WorkerStep(w))

\* Every handler returns.
HandlersReturn == \A w \in WorkerIds : WF_vars(HandlerReturn(w))

\* The whole program, from New().
Spec == Init /\ [][Next]_vars

\* A configured, running pool.
SpecPool == InitPool /\ [][NextPool]_vars

\* Configuration and execution, Stop() never called.
SpecResolve == Init /\ [][NextResolve]_vars

\* A running pool whose handlers may panic, Stop() never called.
SpecPanic == InitPool /\ [][NextPanic]_vars

\* A running pool under fair scheduling, handlers return.
FairPool == SpecPool /\ Fairness /\ HandlersReturn

\* A running pool under fair scheduling, handlers may never return.
FairPoolBlocking == SpecPool /\ Fairness

\* A running pool under fair scheduling, handlers return, Stop() never called.
FairNoStop == InitPool /\ [][RunSteps]_vars /\ Fairness /\ HandlersReturn
\* ---- shared vocabulary of the properties ----
Resolvable(t) == t <= nextId /\ ResolveHandler(taskKind[t]) # Nil
Accepted(t) == munit[t] # "none" \/ djob = t
AllComplete == nextId > 0 /\ completed = 1..nextId
InvokedTasks == {invoked[i].task : i \in 1..Len(invoked)}
InvocationsOf(t) == {i \in 1..Len(invoked) : invoked[i].task = t}
Copies(w) == Cardinality({i \in 1..Len(workerPool) : workerPool[i] = w})
InRegistry(w) == Copies(w) > 0
HeldBy(w) == {t \in TaskIds : munit[t] = "send" /\ mchan[t] = w}
Gone(w) == wpc[w] \in {"quitting", "stopped"}
InOrder == \A i, j \in 1..Len(invoked) : i < j => invoked[i].task < invoked[j].task

\* C1: every task is passed to the execution callback at most once, is held
\* by at most one worker, and has at most one handler invocation.
C1_NoDuplication ==
    \A t \in TaskIds :
        /\ execCount[t] <= 1
        /\ Cardinality({w \in WorkerIds : wtask[w] = t}) <= 1
        /\ Cardinality(InvocationsOf(t)) <= 1

C1_Witness ==
    /\ maxWorkers = 2
    /\ \A t \in 1..2 : execCount[t] = 1 /\ t \in completed
    /\ Len(invoked) >= 1

\* C3 as stated: with one worker the handler invocations occur in submission
\* order.
C3_Original == maxWorkers = 1 => InOrder

\* C3 amended: with one worker the handler invocations occur in submission
\* order as long as no two matching goroutines have waited for the inbox at
\* the same time.
C3_FifoUncontended == (maxWorkers = 1 /\ ~contended) => InOrder

C3_Witness ==
    /\ maxWorkers = 1
    /\ ~contended
    /\ Len(invoked) = 2
    /\ completed = {1, 2}

\* C4: a worker leaves its loop only from the select on its inbox, holding no
\* task; a worker that holds a task or runs a handler never quits.
C4_StopNotAbortive ==
    [][\A w \in WorkerIds :
          (Gone(w)' /\ ~Gone(w)) => (wpc[w] = "select" /\ wtask[w] = 0)]_vars

C4_Witness ==
    \E w \in WorkerIds : wpc[w] = "handler" /\ wStop[w] = "requested"

\* C5: the idle registry never holds more than maxWorkers entries.
C5_BoundedRegistry == Len(workerPool) <= maxWorkers

C5_Witness ==
    /\ maxWorkers = 2
    /\ Len(workerPool) = 2
    /\ completed # {}

\* C6 as stated: a worker's inbox is in the registry iff the worker is
\* waiting for a task.
C6_Original ==
    \A w \in WorkerIds : InRegistry(w) <=> wpc[w] = "select"

\* C6 amended: an inbox is in the registry at most once, and only while its
\* worker waits on it or after the worker has stopped, never while the worker
\* holds a task; a waiting worker's inbox is in the registry or in the hands
\* of one matching goroutine.
C6_RegistryMirror ==
    \A w \in WorkerIds :
        /\ Copies(w) <= 1
        /\ InRegistry(w) => (wpc[w] = "select" \/ Gone(w))
        /\ wpc[w] = "select" => Copies(w) + Cardinality(HeldBy(w)) = 1

C6_Witness ==
    \E w, v \in WorkerIds :
        /\ wpc[w] = "stopped" /\ InRegistry(w)
        /\ wpc[v] = "select" /\ ~InRegistry(v) /\ HeldBy(v) # {}
\* C2 as stated: a task whose QueueTask returned before Stop() was called and
\* whose kind resolves to a handler is eventually passed to the handler.
C2_Original ==
    \A t \in TaskIds :
        (t \in acceptedPreStop /\ Resolvable(t)) ~> (t \in InvokedTasks)

\* C2 amended: such a task is eventually passed to the handler unless Stop()
\* is called before its matching goroutine has handed it to a worker. The
\* tasks concerned only grow in number, so the property is stated as: again
\* and again, every one of them has been invoked or is held back by Stop().
C2_NoLossUnlessStopped ==
    []<>(\A t \in TaskIds :
            (t \in acceptedPreStop /\ Resolvable(t))
                => (t \in InvokedTasks \/ (bStop # "idle" /\ munit[t] # "done")))

C2_Witness ==
    /\ acceptedPreStop = {1, 2}
    /\ InvokedTasks = {1, 2}
    /\ bStop # "idle"

\* C7: with a catch-all installed every executed task invokes the catch-all
\* and nothing else.
C7_CatchAllPrecedence ==
    handlerFn # Nil =>
        /\ \A i \in 1..Len(invoked) : invoked[i].handler = handlerFn
        /\ completed \subseteq InvokedTasks

C7_Witness ==
    /\ handlerFn # Nil
    /\ \E i \in 1..Len(invoked) :
          /\ handlerMap[taskKind[invoked[i].task]] \notin {Nil, handlerFn}
          /\ invoked[i].task \in completed

\* C8: without a catch-all a task invokes the handler of the latest SetHandler
\* call for its kind, and once all submitted tasks are complete each handler
\* has been invoked once per submitted task of the kinds registered to it.
C8_PerKindResolution ==
    handlerFn = Nil =>
        /\ \A i \in 1..Len(invoked) :
              invoked[i].handler = lastSet[taskKind[invoked[i].task]]
        /\ AllComplete =>
              \A h \in Handlers :
                  Cardinality({i \in 1..Len(invoked) : invoked[i].handler = h})
                    = Cardinality({t \in 1..nextId : lastSet[taskKind[t]] = h})

C8_Witness ==
    /\ handlerFn = Nil
    /\ maxWorkers = 2
    /\ AllComplete
    /\ \E t, u \in 1..nextId :
          /\ taskKind[t] = "A" /\ taskKind[u] = "B"
          /\ lastSet["A"] # Nil /\ lastSet["B"] # Nil /\ lastSet["A"] # lastSet["B"]
    /\ Len(invoked) = 2

\* C9: a task whose kind resolves to no handler invokes no handler, its worker
\* goes back to registering its inbox, and a task of a registered kind that is
\* submitted after it is still executed.
C9_UnresolvedNonFatal ==
    /\ [](\A t \in TaskIds : (t <= nextId /\ ~Resolvable(t)) => t \notin InvokedTasks)
    /\ \A w \in WorkerIds :
          (wpc[w] = "process" /\ ~Resolvable(wtask[w])) ~> InRegistry(w)
    /\ \A t, u \in TaskIds :
          (t < u /\ t <= nextId /\ ~Resolvable(t) /\ Accepted(u) /\ Resolvable(u))
              ~> (u \in InvokedTasks)

C9_Witness ==
    /\ ~Resolvable(1)
    /\ 1 \in completed
    /\ \E w \in WorkerIds : InRegistry(w) /\ wpc[w] = "select"
    /\ Resolvable(2)
    /\ 2 \in InvokedTasks

\* C10: a QueueTask call in progress eventually returns, also when handlers
\* never return and every worker is busy.
C10_QueueKeepsDraining == (callerPc = "sending") ~> (callerPc = "idle")

C10_Witness ==
    /\ nextId = 2
    /\ callerPc = "idle"
    /\ munit[2] = "claim"
    /\ \A w \in Workers : wpc[w] = "handler"
InProgress == InvokedTasks \ completed
Busy(w) == wpc[w] \in {"process", "handler"}
C12_OneTaskPerWorker ==
    /\ \A t \in InProgress :
          Cardinality({w \in Workers : wpc[w] = "handler" /\ wtask[w] = t}) = 1
    /\ \A w \in WorkerIds : Busy(w) => (~InRegistry(w) /\ HeldBy(w) = {})
    /\ Cardinality(InProgress) <= maxWorkers

C12_Witness ==
    /\ maxWorkers = 2
    /\ \A w \in Workers : wpc[w] = "handler"
    /\ Cardinality(InProgress) = 2
\* C13: the dispatcher's handshake is acknowledged only after every worker
\* has been sent a stop request, and once Stop() has been called every worker
\* eventually stops (a stopped worker stays stopped, so: again and again,
\* Stop() has not been called or every worker is stopped).
AllStopped == \A w \in Workers : wpc[w] = "stopped"
C13_TeardownCompletes ==
    /\ [](bStop = "complete" => \A w \in Workers : wStop[w] # "idle")
    /\ []<>(bStop # "idle" => AllStopped)

C13_Witness ==
    /\ maxWorkers = 2
    /\ bStop = "complete"
    /\ AllStopped
    /\ completed # {}

\* C14: a worker that has acknowledged its stop request stays stopped: it
\* takes no task and adds no copy of its inbox to the registry.
C14_StoppedIsTerminal ==
    [][\A w \in WorkerIds :
          wStop[w] = "complete" =>
              /\ wpc'[w] = "stopped"
              /\ wtask'[w] = 0
              /\ Copies(w)' <= Copies(w)]_vars

C14_Witness ==
    \E w \in Workers : wpc[w] = "stopped" /\ HeldBy(w) # {} /\ wStop[w] = "complete"
\* C15 as stated: the worker is held in its registration send until a
\* matching goroutine has claimed the registration.
C15_Original ==
    \A w \in WorkerIds : wpc[w] \in {"select", "process", "handler"} => ~InRegistry(w)

\* C15 amended: the registration send never suspends the worker; whenever a
\* worker is about to register, the registry has room for its inbox, and the
\* worker waits in its select while the inbox is still in the registry.
C15_RegistrationNeverBlocks ==
    \A w \in WorkerIds : wpc[w] = "register" => Len(workerPool) < maxWorkers

C15_Witness ==
    /\ maxWorkers = 2
    /\ completed # {}
    /\ \E w, v \in Workers :
          /\ w # v
          /\ wpc[w] = "register" /\ InRegistry(v)
          /\ wpc[v] = "select"

\* C17: per worker, the copies of its inbox in the registry, the matching
\* goroutines holding its inbox and the task it is executing add up to at most
\* one.
C17_ClaimableOnce ==
    \A w \in WorkerIds :
        Copies(w) + Cardinality(HeldBy(w)) + (IF Busy(w) THEN 1 ELSE 0) <= 1

C17_Witness ==
    \E w, v \in Workers :
        /\ Cardinality(HeldBy(w)) = 1 /\ wpc[w] = "select" /\ ~InRegistry(w)
        /\ wpc[v] = "handler" /\ ~InRegistry(v) /\ HeldBy(v) = {}

\* C18: in runs without Stop(), every accepted task has its matching
\* goroutine complete the handoff and its execution callback return, and a
\* worker about to register does register.
C18_NoStopProgress ==
    /\ \A t \in TaskIds : Accepted(t) ~> (munit[t] = "done" /\ t \in completed)
    /\ \A w \in WorkerIds : (wpc[w] = "register") ~> (wpc[w] = "select")

C18_Witness ==
    /\ maxWorkers = 1
    /\ nextId = 2
    /\ contended
    /\ completed = {1, 2}
    /\ wpc[1] = "select"

\* C19: the dispatch loop keeps running after the stop request; a QueueTask
\* call in progress when every worker has stopped is accepted, and from then
\* on no handler is invoked and no matching goroutine completes its handoff.
C19_DispatchOutlivesStop ==
    /\ [](phase = "running" => dpc \in {"select", "spawnMatch", "spawnTeardown"})
    /\ (AllStopped /\ callerPc = "sending") ~> (callerPc = "idle" /\ nextId > 0 /\ Accepted(nextId))
    /\ [][AllStopped =>
            /\ invoked' = invoked
            /\ execCount' = execCount
            /\ \A t \in TaskIds : munit[t] # "done" => munit'[t] # "done"]_vars

C19_Witness ==
    /\ AllStopped
    /\ bStop = "complete"
    /\ callerPc = "idle"
    /\ nextId = 2
    /\ 2 \notin acceptedPreStop
    /\ munit[2] \in {"claim", "send"}
    /\ 2 \notin InvokedTasks
\* C16: after a handler has panicked in one worker, the dispatch loop and
\* the other workers are still running.
C16_PanicContained ==
    \A w \in WorkerIds :
        wpc[w] = "panicked" =>
            /\ dpc # "dead"
            /\ \A v \in Workers \ {w} : wpc[v] # "dead"
====
